---------------------------- MODULE Spec2Model ----------------------------
(***************************************************************************)
(* A model of the PDF outline extractor.                                   *)
(*                                                                         *)
(*   Spec        main.process_all_pdfs driving PDFProcessor.extract_outline*)
(*               (pdf_processor.py) over a batch of documents.             *)
(*                                                                         *)
(* Texts are sequences of Unicode code points, so that the regular         *)
(* expressions, str.lower() and str.strip() of the source are computed     *)
(* character by character.  Font sizes are integers: hundredths of a point *)
(* as delivered by the renderer, tenths of a point once rounded with       *)
(* round(x, 1).  Scores of PDFProcessor are integers in hundredths.        *)
(***************************************************************************)
EXTENDS Integers, Sequences, FiniteSets, TLC

(***************************************************************************)
(* Bounds of the model.                                                    *)
(***************************************************************************)
\* Files found by input_dir.glob("*.pdf").
NumFiles == 2
\* Pages of one document.
MaxPages == 2
\* Text lines the renderer delivers for a batch of one file.
MaxLines == 4
\* Text lines the renderer delivers for a batch of several files, in total.
MaxBatchLines == 2

(***************************************************************************)
(* Characters and strings.                                                 *)
(***************************************************************************)
\* Printable ASCII from code 32 on; the four characters the model never
\* uses (codes 34, 39, 92, 96) are held by ".", which Ord resolves to 46.
AsciiChars == " !.#$%&.()*+,-./0123456789:;<=>?@ABCDEFGHIJKLMNOPQRSTUVWXYZ[.]^_.abcdefghijklmnopqrstuvwxyz"

Ord(c) == 31 + CHOOSE i \in 1..Len(AsciiChars) :
                   SubSeq(AsciiChars, i, i) = c /\ (c = "." => i = 15)

\* The code points of an ASCII string literal of the source.
Asc(str) == SubSeq([i \in 1..Len(str) |-> Ord(SubSeq(str, i, i))], 1, Len(str))

IsDigit(c) == 48 <= c /\ c <= 57
IsUpperAZ(c) == 65 <= c /\ c <= 90
IsLowerAZ(c) == 97 <= c /\ c <= 122
\* \s of the re module on str patterns, and the characters str.strip() removes.
IsSpace(c) ==
    \/ (9 <= c /\ c <= 13)
    \/ (28 <= c /\ c <= 32)
    \/ (c > 127 /\ (\/ c \in {133, 160, 5760, 8232, 8233, 8239, 8287, 12288}
                    \/ (8192 <= c /\ c <= 8202)))

\* str.lower() on one character (ASCII letters; the other characters of the
\* model have no case).
LowerChar(c) == IF IsUpperAZ(c) THEN c + 32 ELSE c
Lower(s) == SubSeq([i \in 1..Len(s) |-> LowerChar(s[i])], 1, Len(s))

\* str.isupper() on one character.
IsUpperChar(c) == IsUpperAZ(c)

\* str.strip()
Strip(s) ==
    IF \A i \in 1..Len(s) : IsSpace(s[i]) THEN <<>>
    ELSE LET lo == CHOOSE i \in 1..Len(s) :
                       ~IsSpace(s[i]) /\ \A j \in 1..(i - 1) : IsSpace(s[j])
             hi == CHOOSE i \in 1..Len(s) :
                       ~IsSpace(s[i]) /\ \A j \in (i + 1)..Len(s) : IsSpace(s[j])
         IN  SubSeq(s, lo, hi)

\* s[i..] starts with p
HasAt(s, i, p) == /\ i >= 1
                  /\ i + Len(p) - 1 <= Len(s)
                  /\ \A k \in 1..Len(p) : s[i + k - 1] = p[k]
StartsWith(s, p) == HasAt(s, 1, p)
\* the same under re.IGNORECASE
StartsWithI(s, p) == HasAt(Lower(s), 1, Lower(p))
Contains(s, p) == \E i \in 1..Len(s) : HasAt(s, i, p)
EndsWith(s, p) == Len(s) >= Len(p) /\ HasAt(s, Len(s) - Len(p) + 1, p)
Count(s, c) == Cardinality({i \in 1..Len(s) : s[i] = c})

\* End of the greedy run of digits / white space starting at i: the first
\* position at or after i that does not hold one (Len(s)+1 when none).
DigitsEnd(s, i) == CHOOSE j \in i..(Len(s) + 1) :
                      /\ \A k \in i..(j - 1) : IsDigit(s[k])
                      /\ (j <= Len(s) => ~IsDigit(s[j]))
SpacesEnd(s, i) == CHOOSE j \in i..(Len(s) + 1) :
                      /\ \A k \in i..(j - 1) : IsSpace(s[k])
                      /\ (j <= Len(s) => ~IsSpace(s[j]))

\* End of the greedy match of \d+(\.\d+)* starting at i (i itself when no
\* digit stands at i).
RECURSIVE DottedEnd(_, _)
DottedEnd(s, i) ==
    LET j == DigitsEnd(s, i)
    IN  IF j = i THEN i
        ELSE IF j <= Len(s) /\ s[j] = 46 /\ DigitsEnd(s, j + 1) > j + 1
             THEN DottedEnd(s, j + 1)
             ELSE j

\* skips one optional "."
OptDot(s, i) == IF i <= Len(s) /\ s[i] = 46 THEN i + 1 ELSE i


(***************************************************************************)
(* Stable sorting, as list.sort does it.  Before(x, y) says that the key   *)
(* of x is strictly smaller than the key of y.                             *)
(***************************************************************************)
InsertStable(sorted, x, Before(_, _)) ==
    LET later == {i \in 1..Len(sorted) : Before(x, sorted[i])}
        p == IF later = {} THEN Len(sorted) + 1
             ELSE CHOOSE i \in later : \A j \in later : i <= j
    IN  SubSeq(sorted, 1, p - 1) \o <<x>> \o SubSeq(sorted, p, Len(sorted))

StableSort(s, Before(_, _)) ==
    LET ins[k \in 0..Len(s)] ==
            IF k = 0 THEN <<>> ELSE InsertStable(ins[k - 1], s[k], Before)
    IN  ins[Len(s)]

\* A table is a set of pairs <<key, value>>, one for every key.
Lookup(table, key) == (CHOOSE p \in table : p[1] = key)[2]

\* The elements of s that satisfy Keep, in their order.
SelectSeqBy(s, Keep(_)) ==
    LET sel[k \in 0..Len(s)] ==
            IF k = 0 THEN <<>>
            ELSE IF Keep(s[k]) THEN Append(sel[k - 1], s[k]) ELSE sel[k - 1]
    IN  sel[Len(s)]

(***************************************************************************)
(* PDFProcessor (pdf_processor.py): the pattern tables.                    *)
(***************************************************************************)
\* the literals of the patterns
LitPage == {Asc("page"), Asc("p.")}
LitChapterSection == {Asc("Chapter"), Asc("Section")}
LitAt == Asc("@")
LitDotCom == Asc(".com")
LitDotOrg == Asc(".org")
LitCopyright == Asc("copyright")
LitCopyrightSign == <<169>>
LitDot == Asc(".")

\* ^(page|p\.)\s*\d+   with re.IGNORECASE
MatchPageNumber(s) ==
    \E p \in LitPage :
        /\ StartsWithI(s, p)
        /\ LET j == SpacesEnd(s, Len(p) + 1) IN j <= Len(s) /\ IsDigit(s[j])

\* ^\d+\s*$
MatchPureNumber(s) ==
    LET j == DigitsEnd(s, 1) IN j > 1 /\ SpacesEnd(s, j) = Len(s) + 1

\* ^\d+\.?\s+[A-Z]
MatchNumberedCapital(s) ==
    LET j == DigitsEnd(s, 1)
        k == OptDot(s, j)
        l == SpacesEnd(s, k)
    IN  j > 1 /\ l > k /\ l <= Len(s) /\ IsUpperAZ(s[l])

\* ^\d+(\.\d+)+\.?\s+
MatchDottedNumber(s) ==
    LET j == DigitsEnd(s, 1)
        e == DottedEnd(s, 1)
        k == OptDot(s, e)
    IN  j > 1 /\ e > j /\ SpacesEnd(s, k) > k

\* ^[A-Z][A-Z\s]{n,}$
MatchAllCaps(s, n) ==
    /\ Len(s) >= n + 1
    /\ IsUpperAZ(s[1])
    /\ \A i \in 2..Len(s) : IsUpperAZ(s[i]) \/ IsSpace(s[i])

\* ^(w1|w2|...)\s+\d+ : one of the words, white space, a digit
MatchWordNumber(s, words, ignorecase) ==
    \E w \in words :
        /\ IF ignorecase THEN StartsWithI(s, w) ELSE StartsWith(s, w)
        /\ LET l == SpacesEnd(s, Len(w) + 1)
           IN  l > Len(w) + 1 /\ l <= Len(s) /\ IsDigit(s[l])

\* any(pattern.match(text) for pattern in self.heading_patterns)
heading_patterns(s) ==
    \/ MatchNumberedCapital(s)
    \/ MatchDottedNumber(s)
    \/ MatchAllCaps(s, 3)
    \/ MatchWordNumber(s, LitChapterSection, TRUE)

\* any(pattern.search(text) for pattern in self.skip_patterns)
skip_patterns(s) ==
    \/ MatchPageNumber(s)
    \/ MatchPureNumber(s)
    \/ Contains(s, LitAt) \/ Contains(s, LitDotCom) \/ Contains(s, LitDotOrg)
    \/ StartsWithI(s, LitCopyright) \/ StartsWith(s, LitCopyrightSign)

(***************************************************************************)
(* The inputs: the lines a page may hold, the metadata a document may      *)
(* carry.  A line of the renderer is                                       *)
(* [spans |-> <<[text, size, flags], ...>>, bbox |-> <<x0, y0, x1, y1>>],  *)
(* sizes in hundredths of a point.                                         *)
(***************************************************************************)
Span(text, size, flags) == [text |-> text, size |-> size, flags |-> flags]
Line(spans, y0) == [spans |-> spans, bbox |-> <<72, y0, 500, y0 + 14>>]

RawLineChoices ==
    { Line(<<Span(Asc("Overview"), 2000, 0)>>, 100),
      Line(<<Span(Asc("OVERVIEW "), 1200, 16)>>, 130),
      Line(<<Span(Asc("1. Intro"), 1600, 4)>>, 160),
      Line(<<Span(Asc(" Body"), 1200, 16), Span(Asc("  "), 900, 0),
             Span(Asc("text here. "), 1205, 2)>>, 190),
      Line(<<Span(Asc("Notes"), 1396, 0)>>, 220),
      Line(<<Span(Asc("Chapter 2"), 1800, 0)>>, 250),
      Line(<<Span(Asc("Copyright 2023 Acme"), 2000, 16)>>, 280) }

\* Length of the list of items that can open a page.
ItemLines == 10
\* the i-th item of the list: "Item A", "Item B", ..., 12 points
ItemLine(i) == Line(<<Span(Asc("Item ") \o <<64 + i>>, 1200, 0)>>, 300 + 20 * i)
ItemList == [i \in 1..ItemLines |-> ItemLine(i)]

\* every line a page of the model can have
ModelLines == RawLineChoices \cup {ItemLine(i) : i \in 1..ItemLines}

\* doc.metadata.get("title", ""): a str, or None when the key holds None
MetaStr(text) == [is_none |-> FALSE, value |-> text]
MetaNone == [is_none |-> TRUE, value |-> <<>>]
\* a title of 150 characters
LongTitle == SubSeq([i \in 1..150 |-> 65], 1, 150)
\* a title that ends in a lone surrogate (U+D83D), which utf-8 cannot encode
BrokenTitle == Asc("Plan ") \o <<55357>>
MetaChoices == { MetaNone, MetaStr(Asc("Doc")), MetaStr(Asc("  Annual Report ")),
                 MetaStr(LongTitle), MetaStr(BrokenTitle) }

(***************************************************************************)
(* PDFProcessor._extract_page_blocks                                       *)
(***************************************************************************)
\* flags & 16
IsBoldFlag(flags) == (flags \div 16) % 2 = 1

\* round(num / den) to the nearest integer, halves to the even neighbour
\* (round(avg_size, 1) with avg_size = num / (10 * den') in tenths).
RoundHalfEven(num, den) ==
    LET q == num \div den
        r == num - q * den
    IN  IF 2 * r > den THEN q + 1
        ELSE IF 2 * r < den THEN q
        ELSE IF q % 2 = 0 THEN q ELSE q + 1

\* The accumulators of the span loop (lines 80-94) after the first k spans.
SpanLoop(spans) ==
    LET acc[k \in 0..Len(spans)] ==
            IF k = 0
            THEN [line_text |-> <<>>, total_size |-> 0, bold_chars |-> 0, total_chars |-> 0]
            ELSE LET a == acc[k - 1]
                     text == Strip(spans[k].text)
                     char_count == Len(text)
                 IN  IF text = <<>> THEN a
                     ELSE [line_text   |-> a.line_text \o text \o <<32>>,
                           total_size  |-> a.total_size + spans[k].size * char_count,
                           bold_chars  |-> a.bold_chars +
                                           (IF IsBoldFlag(spans[k].flags) THEN char_count ELSE 0),
                           total_chars |-> a.total_chars + char_count]
    IN  acc[Len(spans)]

\* The blocks appended for one line (lines 96-107): none or one.
LineBlocks(line, page_no) ==
    LET a == SpanLoop(line.spans)
        line_text == Strip(a.line_text)
    IN  IF line_text # <<>> /\ a.total_chars > 0
        THEN <<[text      |-> line_text,
                page      |-> page_no,
                font_size |-> RoundHalfEven(a.total_size, a.total_chars * 10),
                is_bold   |-> 2 * a.bold_chars > a.total_chars,
                y_pos     |-> line.bbox[2]]>>
        ELSE <<>>

\* LineBlocks tabulated over the lines of the model (page_no filled in by
\* BlocksOfLines).
LineBlocksTable == {<<line, LineBlocks(line, 0)>> : line \in ModelLines}

\* blocks after the loop over the page's lines has run through `lines`
BlocksOfLines(lines, page_no) ==
    LET blk[k \in 0..Len(lines)] ==
            IF k = 0 THEN <<>>
            ELSE LET bs == Lookup(LineBlocksTable, lines[k])
                 IN  blk[k - 1] \o (IF bs = <<>> THEN <<>> ELSE <<[bs[1] EXCEPT !.page = page_no]>>)
    IN  blk[Len(lines)]

\* The texts a block of the model can carry, and what the pattern tables
\* say of each.
BlockTexts == UNION { {p[2][i].text : i \in 1..Len(p[2])} : p \in LineBlocksTable }

\* candidate["text"].lower().strip()
DedupKey(text) == Strip(Lower(text))

TextTable == {<<text, [skip    |-> skip_patterns(text),
                       heading |-> heading_patterns(text),
                       key     |-> DedupKey(text)]>> : text \in BlockTexts}
TextInfo(text) == Lookup(TextTable, text)

\* What get_text delivers for a page: its lines, and where an exception is
\* raised inside the try block: NoRaise, 0 (page.get_text itself), or j (while
\* line j is processed, before its block is appended).
NoRaise == -1

\* extract_page_blocks with the blocks of a raising page thrown away
extract_page_blocks_discarding(page, page_no) ==
    IF page.raise_at = NoRaise THEN BlocksOfLines(page.lines, page_no) ELSE <<>>

\* _extract_page_blocks(page, page_no): the except clause logs and falls
\* through to `return blocks`.
extract_page_blocks(page, page_no) ==
    IF page.raise_at = NoRaise THEN BlocksOfLines(page.lines, page_no)
    ELSE IF page.raise_at = 0 THEN <<>>
    ELSE BlocksOfLines(SubSeq(page.lines, 1, page.raise_at - 1), page_no)

(***************************************************************************)
(* PDFProcessor._extract_title                                             *)
(***************************************************************************)
\* The title score font_size * 1.3 (if bold) * 1.2 (if page 1), exactly, in
\* units of 1/10000 point (font_size is in tenths).
TitleScore(block) ==
    block.font_size * (IF block.is_bold THEN 130 ELSE 100)
                    * (IF block.page = 1 THEN 12 ELSE 10)

FirstN(s, n) == SubSeq(s, 1, IF Len(s) < n THEN Len(s) ELSE n)

\* the best candidate among all blocks of page 1
BestCandidate_of_whole_page(blocks) ==
    LET OnPage1(b) == b.page = 1
        first_page_blocks == SelectSeqBy(blocks, OnPage1)
        best[k \in 0..Len(first_page_blocks)] ==
            IF k = 0 THEN [candidate |-> <<>>, score |-> 0]
            ELSE LET block == first_page_blocks[k]
                     text == block.text
                     prev == best[k - 1]
                 IN  IF Len(text) < 5 \/ Len(text) > 200 THEN prev
                     ELSE IF TextInfo(text).skip THEN prev
                     ELSE IF TitleScore(block) > prev.score
                          THEN [candidate |-> text, score |-> TitleScore(block)]
                          ELSE prev
    IN  best[Len(first_page_blocks)].candidate

\* lines 120-149: the best candidate among the first ten blocks of page 1
BestCandidate(blocks) ==
    LET OnPage1(b) == b.page = 1
        first_page_blocks == FirstN(SelectSeqBy(blocks, OnPage1), 10)
        best[k \in 0..Len(first_page_blocks)] ==
            IF k = 0 THEN [candidate |-> <<>>, score |-> 0]
            ELSE LET block == first_page_blocks[k]
                     text == block.text
                     prev == best[k - 1]
                 IN  IF Len(text) < 5 \/ Len(text) > 200 THEN prev
                     ELSE IF TextInfo(text).skip THEN prev
                     ELSE IF TitleScore(block) > prev.score
                          THEN [candidate |-> text, score |-> TitleScore(block)]
                          ELSE prev
    IN  best[Len(first_page_blocks)].candidate

\* extract_title with len(title) >= 3 for len(title) > 3
extract_title_from_three(metadata_title, blocks) ==
    LET stripped == Strip(metadata_title)
    IN  IF stripped # <<>> /\ Len(stripped) >= 3 /\ Len(stripped) < 150 THEN stripped
        ELSE BestCandidate(blocks)

\* metadata_title: the str that doc.metadata.get("title", "") returned.
extract_title(metadata_title, blocks) ==
    LET stripped == Strip(metadata_title)
    IN  IF stripped # <<>> /\ Len(stripped) > 3 /\ Len(stripped) < 150 THEN stripped
        ELSE BestCandidate(blocks)

(***************************************************************************)
(* PDFProcessor._extract_headings and _assign_levels.  Scores are in       *)
(* hundredths: (font_size - body_size) * 0.1 is the difference in tenths.  *)
(***************************************************************************)
\* Counter(font_sizes).most_common(1)[0][0]: the size counted most often,
\* the one seen first among equals.
MostCommonFirst(sizes) ==
    LET cnt(v) == Cardinality({i \in 1..Len(sizes) : sizes[i] = v})
        first == CHOOSE i \in 1..Len(sizes) :
                    /\ \A j \in 1..Len(sizes) : cnt(sizes[j]) <= cnt(sizes[i])
                    /\ \A j \in 1..(i - 1) : cnt(sizes[j]) < cnt(sizes[i])
    IN  sizes[first]

body_size_of(blocks) == MostCommonFirst([i \in 1..Len(blocks) |-> blocks[i].font_size])

\* lines 168-174: the length filter and the skip patterns
PassesFilters(text) == ~(Len(text) < 3 \/ Len(text) > 150) /\ ~TextInfo(text).skip

\* lines 176-196
HeadingScore(block, body_size) ==
      (IF block.font_size > body_size + 10 THEN block.font_size - body_size ELSE 0)
    + (IF block.is_bold THEN 30 ELSE 0)
    + (IF TextInfo(block.text).heading THEN 40 ELSE 0)
    + (IF 5 <= Len(block.text) /\ Len(block.text) <= 80 THEN 20 ELSE 0)
    + (IF IsUpperChar(block.text[1]) /\ ~EndsWith(block.text, LitDot) THEN 10 ELSE 0)

\* if score >= 0.4
Threshold == 40

\* lines 163-204: the candidates, in the order of blocks
CandidatesOf(blocks) ==
    LET body_size == body_size_of(blocks)
        cand[k \in 0..Len(blocks)] ==
            IF k = 0 THEN <<>>
            ELSE LET block == blocks[k]
                 IN  IF PassesFilters(block.text) /\ HeadingScore(block, body_size) >= Threshold
                     THEN Append(cand[k - 1],
                                 [text      |-> block.text,
                                  page      |-> block.page,
                                  score     |-> HeadingScore(block, body_size),
                                  font_size |-> block.font_size])
                     ELSE cand[k - 1]
    IN  cand[Len(blocks)]

\* lines 209-216: the first candidate of every text is kept
RemoveDuplicates(candidates) ==
    LET uniq[k \in 0..Len(candidates)] ==
            IF k = 0 THEN <<>>
            ELSE IF \E j \in 1..(k - 1) :
                        TextInfo(candidates[j].text).key = TextInfo(candidates[k].text).key
                 THEN uniq[k - 1]
                 ELSE Append(uniq[k - 1], candidates[k])
    IN  uniq[Len(candidates)]

\* key=lambda x: (-x["score"], x["page"])
ScoreThenPage(x, y) == x.score > y.score \/ (x.score = y.score /\ x.page < y.page)

\* key=lambda x: x["page"]
ByPage(x, y) == x.page < y.page

level_names == <<"H1", "H2", "H3">>

\* TopSizes without reverse=True: the three smallest sizes, ascending
TopSizesAscending(candidates) ==
    LET sizes == {candidates[i].font_size : i \in 1..Len(candidates)}
        Rank(v) == Cardinality({w \in sizes : w < v}) + 1
    IN  [i \in 1..(IF Cardinality(sizes) < 3 THEN Cardinality(sizes) ELSE 3) |->
            CHOOSE v \in sizes : Rank(v) = i]

\* sorted(size_groups.keys(), reverse=True)[:3]
TopSizes(candidates) ==
    LET sizes == {candidates[i].font_size : i \in 1..Len(candidates)}
        Rank(v) == Cardinality({w \in sizes : w > v}) + 1
    IN  [i \in 1..(IF Cardinality(sizes) < 3 THEN Cardinality(sizes) ELSE 3) |->
            CHOOSE v \in sizes : Rank(v) = i]

\* LevelEntries with the candidates of the smaller sizes folded into H3
LevelEntries_folding_into_H3(candidates) ==
    LET sorted_sizes == TopSizes(candidates)
        grp[i \in 0..Len(sorted_sizes)] ==
            IF i = 0 THEN <<>>
            ELSE LET size == sorted_sizes[i]
                     InGroup(c) == c.font_size = size \/ (i = 3 /\ c.font_size < size)
                     members == SelectSeqBy(candidates, InGroup)
                 IN  grp[i - 1] \o [k \in 1..Len(members) |->
                                       [level |-> level_names[i],
                                        text  |-> members[k].text,
                                        page  |-> members[k].page]]
    IN  grp[Len(sorted_sizes)]

\* lines 244-251: the groups of the three largest sizes one after the other,
\* each in the order of candidates
LevelEntries(candidates) ==
    LET sorted_sizes == TopSizes(candidates)
        grp[i \in 0..Len(sorted_sizes)] ==
            IF i = 0 THEN <<>>
            ELSE LET size == sorted_sizes[i]
                     InGroup(c) == c.font_size = size
                     members == SelectSeqBy(candidates, InGroup)
                 IN  grp[i - 1] \o [k \in 1..Len(members) |->
                                       [level |-> level_names[i],
                                        text  |-> members[k].text,
                                        page  |-> members[k].page]]
    IN  grp[Len(sorted_sizes)]

\* assign_levels without the final sort by page
assign_levels_unsorted(candidates) ==
    IF candidates = <<>> THEN <<>> ELSE LevelEntries(candidates)

\* _assign_levels(candidates)
assign_levels(candidates) ==
    IF candidates = <<>> THEN <<>>
    ELSE StableSort(LevelEntries(candidates), ByPage)

\* _extract_headings(blocks)
extract_headings(blocks) ==
    IF blocks = <<>> THEN <<>>
    ELSE assign_levels(StableSort(RemoveDuplicates(CandidatesOf(blocks)), ScoreThenPage))

(***************************************************************************)
(* TextAnalyzer (text_analyzer.py).  \d and [A-Z] are taken over the       *)
(* characters of the model: ASCII digits and letters, CJK characters.      *)
(***************************************************************************)
\* the characters of the CJK patterns
CjkNumerals == {19968, 20108, 19977, 22235, 20116, 20845, 19971, 20843, 20061, 21313}
CjkDi == 31532
CjkZhang == 31456
CjkChapterMarks == {31456, 33410, 37096, 20998}
CjkCommas == {12289, 12290}
HangulJe == 51228
HangulMarks == {51109, 51208, 48512}
Newline == 10
QuestionMark == 63

IsKana(c) == 12352 <= c /\ c <= 12543
IsIdeograph(c) == 19968 <= c /\ c <= 40959
IsHangul(c) == 44032 <= c /\ c <= 55215
IsCjkNumeral(c) == c \in CjkNumerals
IsCjkNumeralOrDigit(c) == IsCjkNumeral(c) \/ IsDigit(c)
IsRoman(c) == c \in {73, 86, 88, 76, 67}
IsRomanI(c) == IsRoman(c) \/ IsRoman(c - 32)
IsLetter(c) == IsUpperAZ(c) \/ IsLowerAZ(c)

\* End of the greedy run of characters satisfying In that starts at i.
RunEnd(s, i, In(_)) ==
    CHOOSE j \in i..(Len(s) + 1) :
        /\ \A k \in i..(j - 1) : In(s[k])
        /\ (j <= Len(s) => ~In(s[j]))

\* \s{min,}(.+) matches at k: white space, then a character other than "\n"
SpacesThenRest(s, k, min) ==
    \E q \in (k + min)..SpacesEnd(s, k) : q <= Len(s) /\ s[q] # Newline

LitNonTitleSections == {Asc("abstract"), Asc("introduction"), Asc("conclusion"),
                        Asc("references"), Asc("bibliography")}
LitCaptions == {Asc("figure"), Asc("table"), Asc("chart")}
LitUrlParts == {Asc("@"), Asc(".com"), Asc(".org"), Asc(".edu")}
LitCopyrightMarks == {Asc("copyright"), <<169>>, Asc("(c)")}
LitChapterSectionPart == {Asc("Chapter"), Asc("Section"), Asc("Part")}

\* ^第[一二三四五六七八九十\d]+[marks] at position i
MatchCjkChapterAt(s, i, marks) ==
    /\ i <= Len(s) /\ s[i] = CjkDi
    /\ LET j == RunEnd(s, i + 1, IsCjkNumeralOrDigit)
       IN  j > i + 1 /\ j <= Len(s) /\ s[j] \in marks

\* [一二三四五六七八九十]+[、。] at position i
MatchCjkNumeralAt(s, i) ==
    LET j == RunEnd(s, i, IsCjkNumeral)
    IN  j > i /\ j <= Len(s) /\ s[j] \in CjkCommas

\* 제\s*\d+\s*[장절부] at position i
MatchHangulChapterAt(s, i) ==
    /\ i <= Len(s) /\ s[i] = HangulJe
    /\ LET j == SpacesEnd(s, i + 1)
           k == DigitsEnd(s, j)
           l == SpacesEnd(s, k)
       IN  k > j /\ l <= Len(s) /\ s[l] \in HangulMarks

\* any(pattern.search(text_clean)) over compiled_non_title (re.IGNORECASE)
non_title_patterns(s) ==
    \/ MatchPageNumber(s)
    \/ MatchPureNumber(s)
    \/ Lower(s) \in LitNonTitleSections
    \/ \E w \in LitCaptions : StartsWithI(s, w)
    \/ \E w \in LitUrlParts : Contains(Lower(s), w)
    \/ \E w \in LitCopyrightMarks : StartsWithI(s, w)
    \/ (Len(s) = 4 /\ \A i \in 1..4 : IsDigit(s[i]))
    \/ (Len(s) \in 1..3 /\ \A i \in 1..Len(s) : IsLetter(s[i]) \/ IsSpace(s[i]))

\* TextAnalyzer.is_likely_non_title
is_likely_non_title(text) ==
    LET text_clean == Strip(text)
    IN  \/ non_title_patterns(text_clean)
        \/ Len(text_clean) < 3
        \/ Count(text_clean, 46) > 3
        \/ Count(text_clean, Newline) > 0

\* any(pattern.match(text_clean)) over compiled_heading
analyzer_heading_patterns(s) ==
    \/ MatchNumberedCapital(s)
    \/ MatchAllCaps(s, 2)
    \/ MatchWordNumber(s, LitChapterSectionPart, FALSE)
    \/ LET e == DottedEnd(s, 1) IN e > 1 /\ SpacesEnd(s, OptDot(s, e)) > OptDot(s, e)
    \/ LET j == RunEnd(s, 1, IsRoman)
           l == SpacesEnd(s, OptDot(s, j))
       IN  j > 1 /\ l > OptDot(s, j) /\ l <= Len(s) /\ IsUpperAZ(s[l])
    \/ /\ Len(s) >= 1 /\ IsUpperAZ(s[1])
       /\ LET l == SpacesEnd(s, OptDot(s, 2))
          IN  l > OptDot(s, 2) /\ l <= Len(s) /\ IsUpperAZ(s[l])
    \/ MatchCjkChapterAt(s, 1, {CjkZhang})
    \/ MatchCjkNumeralAt(s, 1)
    \/ (Len(s) \in 1..50 /\ \A i \in 1..Len(s) : IsKana(s[i]) \/ (19968 <= s[i] /\ s[i] <= 40879))
    \/ MatchCjkChapterAt(s, 1, CjkChapterMarks)
    \/ MatchHangulChapterAt(s, 1)

\* TextAnalyzer.is_likely_heading
is_likely_heading(text) ==
    LET text_clean == Strip(text)
    IN  IF Len(text_clean) < 2 \/ Len(text_clean) > 200 THEN FALSE
        ELSE \/ analyzer_heading_patterns(text_clean)
             \/ /\ IsUpperChar(text_clean[1])
                /\ Len(text_clean) <= 100
                /\ ~EndsWith(text_clean, LitDot)
                /\ Count(text_clean, 46) <= 1
             \/ (text_clean[Len(text_clean)] = QuestionMark /\ Len(text_clean) <= 80)

\* TextAnalyzer.extract_numbering(text)[0] is a non-empty string: one of the
\* five patterns matches text_clean (re.IGNORECASE); group 1 is never empty.
has_numbering(text) ==
    LET s == Strip(text)
        e1 == DottedEnd(s, 1)
        e2 == RunEnd(s, 1, IsRomanI)
    IN  \/ (e1 > 1 /\ SpacesThenRest(s, OptDot(s, e1), 1))
        \/ (e2 > 1 /\ SpacesThenRest(s, OptDot(s, e2), 1))
        \/ (Len(s) >= 1 /\ IsLetter(s[1]) /\ SpacesThenRest(s, OptDot(s, 2), 1))
        \/ /\ Len(s) >= 1 /\ s[1] = CjkDi
           /\ LET j == DigitsEnd(s, 2)
              IN  j > 2 /\ j <= Len(s) /\ s[j] = CjkZhang /\ SpacesThenRest(s, j + 1, 0)
        \/ \E w \in LitChapterSectionPart :
              /\ StartsWithI(s, w)
              /\ LET l == SpacesEnd(s, Len(w) + 1)
                 IN  /\ l > Len(w) + 1
                     /\ \E p \in (l + 1)..DigitsEnd(s, l) : SpacesThenRest(s, p, 0)

\* detect_language with the Korean test before the Chinese one
detect_language_hangul_first(text) ==
    IF \E i \in 1..Len(text) : IsKana(text[i]) THEN "ja"
    ELSE IF \E i \in 1..Len(text) : IsHangul(text[i]) THEN "ko"
    ELSE IF \E i \in 1..Len(text) : IsIdeograph(text[i]) THEN "zh"
    ELSE "en"

\* TextAnalyzer.detect_language
detect_language(text) ==
    IF \E i \in 1..Len(text) : IsKana(text[i]) THEN "ja"
    ELSE IF \E i \in 1..Len(text) : IsIdeograph(text[i]) THEN "zh"
    ELSE IF \E i \in 1..Len(text) : IsHangul(text[i]) THEN "ko"
    ELSE "en"

(***************************************************************************)
(* The text blocks detect_headings may be given.                           *)
(***************************************************************************)
\* Blocks added one by one to a document.
MaxDetectBlocks == 2
\* Pages of a document.
MaxDetectPages == 2
\* Length of the run of headings that can fill a page.
RunLen == 10

TopMargin == 72
LineHeight == 14
Block(text, page, spans, y0) ==
    [text |-> text, page |-> page, spans |-> spans,
     bbox |-> <<72, y0, 500, y0 + LineHeight>>]

\* text and spans of the blocks that are added one by one
DetectTemplates ==
    { [text |-> Asc("1. Intro"), spans |-> <<Span(Asc("1. Intro"), 2400, 16)>>],
      [text |-> Asc("Overview"), spans |-> <<Span(Asc("Overview"), 1600, 0)>>],
      [text |-> Asc(" overview"),
       spans |-> <<Span(Asc(" over"), 1200, 2), Span(Asc("view"), 1200, 16)>>],
      [text |-> Asc("Copyright 2023 Acme"), spans |-> <<Span(Asc("Copyright 2023 Acme"), 2400, 16)>>],
      [text |-> Asc("page 3"), spans |-> <<Span(Asc("page 3"), 1200, 0)>>],
      [text |-> Asc("Summary"), spans |-> <<Span(Asc("Summary"), 1346, 0)>>],
      [text |-> <<31532, 49, 31456, 32, 27010, 35201>>,
       spans |-> <<Span(<<31532, 49, 31456, 32, 27010, 35201>>, 1200, 0)>>] }

\* vertical gap between a block and the one above it on the page
GapChoices == {4, 30}

\* font_info.get(key, default): a dict is a function on its keys
EmptyDict == [k \in {} |-> 0]
Get(dict, key, default) == IF key \in DOMAIN dict THEN dict[key] ELSE default
\* the font_info dicts
FontInfoChoices == { EmptyDict, [k \in {"body_font_size"} |-> 1000] }

\* where the next block of the page starts
NextY(blocks, page, gap) ==
    LET on_page == {k \in 1..Len(blocks) : blocks[k].page = page}
    IN  IF on_page = {} THEN TopMargin
        ELSE blocks[CHOOSE k \in on_page : \A j \in on_page : j <= k].bbox[4] + gap

\* the i-th heading of a run: "Topic A", "Topic B", ..., bold, alternately
\* 12 and 18 points
RunText(i) == Asc("Topic ") \o <<64 + i>>
RunBlock(i, page, y0) ==
    Block(RunText(i), page, <<Span(RunText(i), IF i % 2 = 0 THEN 1800 ELSE 1200, 16)>>, y0)

\* blocks with a run of n headings appended on the page
WithRun(blocks, page, n) ==
    LET run[i \in 0..n] ==
            IF i = 0 THEN blocks
            ELSE LET before == run[i - 1]
                 IN  Append(before, RunBlock(i, page, NextY(before, page, 4)))
    IN  run[n]

\* The texts a block of the model can carry, and what TextAnalyzer says of
\* each.
DetectTexts == {t.text : t \in DetectTemplates} \cup {RunText(i) : i \in 1..RunLen}

(***************************************************************************)
(* StructureDetector (structure_detector.py).  A text block is             *)
(* [text, page, spans, bbox]; span sizes are in hundredths of a point.     *)
(* Scores are integers, ScoreOne standing for 1.0: every term of the score *)
(* is a whole number of these units for the sizes of the model, so the     *)
(* sums and the boosts are exact where the code rounds to a float.         *)
(***************************************************************************)
ScoreOne == 12000000
\* num/den as a score
Parts(num, den) == (ScoreOne \div den) * num

\* self.min_heading_score = 0.3
min_heading_score == Parts(3, 10)
\* self.max_headings_per_page = 10
max_headings_per_page == 10

\* the default of font_info.get("body_font_size", 12)
DefaultBodySize == 1200

SumSizes(spans) ==
    LET sum[k \in 0..Len(spans)] == IF k = 0 THEN 0 ELSE sum[k - 1] + spans[k].size
    IN  sum[Len(spans)]
\* np.mean([span["size"] for span in block["spans"]])
MeanSize(spans) == SumSizes(spans) \div Len(spans)

BoldSpans(spans) == Cardinality({k \in 1..Len(spans) : IsBoldFlag(spans[k].flags)})

\* StructureDetector._get_dominant_weight: Counter(weights).most_common(1)
WeightOf(flags) ==
    IF IsBoldFlag(flags) THEN "bold"
    ELSE IF (flags \div 2) % 2 = 1 THEN "italic"
    ELSE "normal"
get_dominant_weight(block) ==
    IF block.spans = <<>> THEN "normal"
    ELSE MostCommonFirst([k \in 1..Len(block.spans) |-> WeightOf(block.spans[k].flags)])

\* StructureDetector._is_start_of_section
is_start_of_section(block, blocks, block_index) ==
    \/ /\ block_index > 1
       /\ block.page = blocks[block_index - 1].page
       /\ block.bbox[2] - blocks[block_index - 1].bbox[4] > 20
    \/ /\ block.page > 1
       /\ LET on_page == {k \in 1..Len(blocks) : blocks[k].page = block.page}
          IN  on_page # {} /\ blocks[CHOOSE k \in on_page : \A j \in on_page : k <= j] = block

\* StructureDetector._is_isolated_text
is_isolated_text(block, blocks, block_index) ==
    \/ Len(block.text) <= 50
    \/ /\ block_index < Len(blocks)
       /\ block.spans # <<>> /\ blocks[block_index + 1].spans # <<>>
       /\ LET n1 == Len(block.spans)
              n2 == Len(blocks[block_index + 1].spans)
              d == SumSizes(block.spans) * n2 - SumSizes(blocks[block_index + 1].spans) * n1
          IN  (IF d < 0 THEN -d ELSE d) > 200 * n1 * n2

\* StructureDetector._analyze_cjk_patterns
analyze_cjk_patterns(text) ==
    (IF \E i \in 1..Len(text) : MatchCjkChapterAt(text, i, {CjkZhang}) THEN Parts(3, 10)
     ELSE IF \E i \in 1..Len(text) : MatchCjkNumeralAt(text, i) THEN Parts(2, 10)
     ELSE IF \E i \in 1..Len(text) : MatchCjkChapterAt(text, i, CjkChapterMarks) THEN Parts(3, 10)
     ELSE IF \E i \in 1..Len(text) : MatchHangulChapterAt(text, i) THEN Parts(3, 10)
     ELSE 0)
    + (IF Len(text) <= 30 /\ \E i \in 1..Len(text) : IsIdeograph(text[i])
       THEN Parts(1, 10) ELSE 0)

\* the text with its case kept
FilterKey_case_sensitive(text) == Strip(text)
\* candidate["text"].strip().lower()
FilterKey(text) == Lower(Strip(text))

TextFactsTable ==
    {<<text, [heading   |-> is_likely_heading(text),
              non_title |-> is_likely_non_title(text),
              numbering |-> has_numbering(text),
              language  |-> detect_language(text),
              cjk_bonus |-> analyze_cjk_patterns(text),
              key       |-> FilterKey(text)]>> : text \in DetectTexts}
TextFacts(text) == Lookup(TextFactsTable, text)

\* lines 55-61: min(0.3, (avg_size / body_size - 1.0) * 0.3) when the ratio
\* is above 1.2
SizeTerm(spans, body_size) ==
    LET n == Len(spans)
        sum == SumSizes(spans)
    IN  IF n = 0 \/ 10 * sum <= 12 * n * body_size THEN 0
        ELSE IF sum >= 2 * n * body_size THEN Parts(3, 10)
        ELSE (((ScoreOne \div 10) * 3) \div (n * body_size)) * (sum - n * body_size)

\* lines 44-95: the score before it is clamped
RawScore(block, finfo, blocks, block_index) ==
      (IF TextFacts(block.text).heading THEN Parts(4, 10) ELSE 0)
    - (IF TextFacts(block.text).non_title THEN Parts(5, 10) ELSE 0)
    + SizeTerm(block.spans, Get(finfo, "body_font_size", DefaultBodySize))
    + (IF BoldSpans(block.spans) > 0
       THEN ((ScoreOne \div 5) * BoldSpans(block.spans)) \div Len(block.spans) ELSE 0)
    + (IF 5 <= Len(block.text) /\ Len(block.text) <= 100 THEN Parts(2, 10)
       ELSE IF Len(block.text) <= 5 THEN -Parts(2, 10)
       ELSE IF Len(block.text) > 200 THEN -Parts(3, 10)
       ELSE 0)
    + (IF is_start_of_section(block, blocks, block_index) THEN Parts(2, 10) ELSE 0)
    + (IF TextFacts(block.text).numbering THEN Parts(3, 10) ELSE 0)
    + (IF is_isolated_text(block, blocks, block_index) THEN Parts(15, 100) ELSE 0)
    + (IF TextFacts(block.text).language \in {"ja", "zh", "ko"}
       THEN TextFacts(block.text).cjk_bonus ELSE 0)

\* max(0.0, min(1.0, score))
Clamp(score) == IF score < 0 THEN 0 ELSE IF score > ScoreOne THEN ScoreOne ELSE score

\* StructureDetector._calculate_heading_score
calculate_heading_score(block, finfo, blocks, block_index) ==
    Clamp(RawScore(block, finfo, blocks, block_index))

\* detect_headings lines 20-36: the candidates, in the order of the blocks
\* ("id" is "heading_" and block_index; block_index counts from 0)
ScoredCandidates(blocks, finfo) ==
    LET cand[k \in 0..Len(blocks)] ==
            IF k = 0 THEN <<>>
            ELSE LET block == blocks[k]
                     score == calculate_heading_score(block, finfo, blocks, k)
                 IN  IF score >= min_heading_score
                     THEN Append(cand[k - 1],
                                 [text        |-> block.text,
                                  page        |-> block.page,
                                  score       |-> score,
                                  font_size   |-> MeanSize(block.spans),
                                  font_weight |-> get_dominant_weight(block),
                                  position    |-> block.bbox[2],
                                  block_index |-> k - 1])
                     ELSE cand[k - 1]
    IN  cand[Len(blocks)]

\* key=lambda x: x["score"], reverse=True
ScoreDescending(x, y) == x.score > y.score

\* how many of the candidates kept so far are on the page
PageCount(kept, page) == Cardinality({i \in 1..Len(kept) : kept[i].page = page})

\* _filter_candidates lines 191-213: the loop over the sorted candidates;
\* trace records, for every candidate in turn, the branch it left the loop
\* body by.
Verdict(candidate, verdict) == [candidate |-> candidate, verdict |-> verdict]
FilterLoop(sorted) ==
    LET acc[k \in 0..Len(sorted)] ==
            IF k = 0 THEN [filtered |-> <<>>, used_texts |-> {}, trace |-> <<>>]
            ELSE LET prev == acc[k - 1]
                     candidate == sorted[k]
                     text == TextFacts(candidate.text).key
                 IN  IF text \in prev.used_texts
                     THEN [prev EXCEPT !.trace = Append(@, Verdict(candidate, "duplicate"))]
                     ELSE IF PageCount(prev.filtered, candidate.page) >= max_headings_per_page
                     THEN [prev EXCEPT !.trace = Append(@, Verdict(candidate, "page_limit"))]
                     ELSE IF candidate.score < min_heading_score
                     THEN [prev EXCEPT !.trace = Append(@, Verdict(candidate, "low_score"))]
                     ELSE [filtered   |-> Append(prev.filtered, candidate),
                           used_texts |-> prev.used_texts \cup {text},
                           trace      |-> Append(prev.trace, Verdict(candidate, "kept"))]
    IN  acc[Len(sorted)]

\* the loop goes over the candidates as they come
SortByScore_not_sorting(cands) == cands
\* candidates.sort(key=lambda x: x["score"], reverse=True)
SortByScore(cands) == StableSort(cands, ScoreDescending)

\* what the loop of _filter_candidates did with each candidate
FilterTrace(cands) ==
    IF cands = <<>> THEN <<>>
    ELSE FilterLoop(SortByScore(cands)).trace

\* StructureDetector._filter_candidates
filter_candidates(cands) ==
    IF cands = <<>> THEN <<>>
    ELSE FilterLoop(SortByScore(cands)).filtered

\* key=lambda x: (x["page"], x["position"])
PageThenPosition(x, y) ==
    x.page < y.page \/ (x.page = y.page /\ x.position < y.position)

\* _rank_candidates lines 226-234: the boosts of one candidate
Boosted(candidate) ==
    LET early == IF candidate.page <= 3 THEN (candidate.score * 11) \div 10
                 ELSE candidate.score
    IN  IF TextFacts(candidate.text).numbering THEN (early * 12) \div 10 ELSE early

\* rank_candidates with the candidates put in the order of their boosted
\* scores, highest first
rank_candidates_by_boosted_score(cands) ==
    IF cands = <<>> THEN <<>>
    ELSE LET sorted == StableSort(cands, PageThenPosition)
             boosted == [k \in 1..Len(sorted) |-> [sorted[k] EXCEPT !.score = Boosted(sorted[k])]]
         IN  StableSort(boosted, ScoreDescending)

\* StructureDetector._rank_candidates
rank_candidates(cands) ==
    IF cands = <<>> THEN <<>>
    ELSE LET sorted == StableSort(cands, PageThenPosition)
         IN  [k \in 1..Len(sorted) |-> [sorted[k] EXCEPT !.score = Boosted(sorted[k])]]

\* StructureDetector.detect_headings
detect_headings(blocks, finfo) ==
    rank_candidates(filter_candidates(ScoredCandidates(blocks, finfo)))

(***************************************************************************)
(* FontAnalyzer (font_analyzer.py).  Span sizes are in hundredths of a      *)
(* point; the sizes FontAnalyzer works with are rounded to 0.1 and are in   *)
(* tenths of a point.  Spans of the model carry no font family, so the      *)
(* "families" list of the statistics is left out.                          *)
(***************************************************************************)
\* self.font_size_threshold = 2.0
font_size_threshold == 20
\* the most common size of a document without spans
DefaultMostCommonSize == 120
\* if size > body_size + 1
HierarchyMargin == 10

\* the spans of the blocks, in the order of the two loops
AllSpans(blocks) ==
    LET cat[k \in 0..Len(blocks)] ==
            IF k = 0 THEN <<>> ELSE cat[k - 1] \o blocks[k].spans
    IN  cat[Len(blocks)]

\* round(span["size"], 1)
RoundedSize(span) == RoundHalfEven(span.size, 10)

\* the elements of a set of numbers, largest first
Descending(set) ==
    LET n == Cardinality(set)
        seq[k \in 0..n] ==
            IF k = 0 THEN <<>>
            ELSE LET rest == set \ {seq[k - 1][j] : j \in 1..(k - 1)}
                 IN  Append(seq[k - 1], CHOOSE v \in rest : \A w \in rest : w <= v)
    IN  seq[n]

\* size_frequency after the loops: the text lengths of the spans of a size
CharsOfSize(spans, sizes, v) ==
    LET sum[k \in 0..Len(spans)] ==
            IF k = 0 THEN 0
            ELSE sum[k - 1] + (IF sizes[k] = v THEN Len(spans[k].text) ELSE 0)
    IN  sum[Len(spans)]

\* the first size met that has the most spans
MostCommonSize_by_span_count(sizes, size_frequency) == MostCommonFirst(sizes)
\* size_frequency.most_common(1)[0][0]: the first key inserted among those
\* with the greatest count
MostCommonSize(sizes, size_frequency) ==
    LET first == CHOOSE i \in 1..Len(sizes) :
                     /\ \A j \in 1..Len(sizes) :
                            size_frequency[sizes[j]] <= size_frequency[sizes[i]]
                     /\ \A j \in 1..(i - 1) :
                            size_frequency[sizes[j]] < size_frequency[sizes[i]]
    IN  sizes[first]

\* FontAnalyzer._collect_font_statistics
collect_font_statistics(blocks) ==
    LET spans == AllSpans(blocks)
        sizes == [k \in 1..Len(spans) |-> RoundedSize(spans[k])]
        distinct == {sizes[k] : k \in 1..Len(sizes)}
        size_frequency == [v \in distinct |-> CharsOfSize(spans, sizes, v)]
    IN  [sizes            |-> sizes,
         weights          |-> [k \in 1..Len(spans) |-> WeightOf(spans[k].flags)],
         size_frequency   |-> size_frequency,
         unique_sizes     |-> Descending(distinct),
         most_common_size |-> IF distinct = {} THEN DefaultMostCommonSize
                              ELSE MostCommonSize(sizes, size_frequency)]

\* key=lambda x: x["size"], reverse=True
SizeDescending(x, y) == x.size > y.size

\* size / body_size, kept as a fraction
Ratio(num, den) == [num |-> num, den |-> den]

\* lines 77-82
LevelInfo(size, body_size, i) ==
    [size            |-> size,
     relative_size   |-> Ratio(size, body_size),
     suggested_level |-> IF i + 1 < 3 THEN i + 1 ELSE 3,
     size_difference |-> size - body_size]

\* FontAnalyzer._determine_font_hierarchy
determine_font_hierarchy(font_stats) ==
    LET unique_sizes == font_stats.unique_sizes
        body_size == font_stats.most_common_size
        loop[k \in 0..Len(unique_sizes)] ==
            IF k = 0 THEN <<>>
            ELSE IF unique_sizes[k] > body_size + HierarchyMargin
                 THEN Append(loop[k - 1], LevelInfo(unique_sizes[k], body_size, k - 1))
                 ELSE loop[k - 1]
        sorted == StableSort(loop[Len(unique_sizes)], SizeDescending)
    IN  SubSeq(sorted, 1, IF Len(sorted) < 3 THEN Len(sorted) ELSE 3)

\* FontAnalyzer._estimate_body_font_size
estimate_body_font_size(font_stats) == font_stats.most_common_size

\* FontAnalyzer.analyze_fonts
analyze_fonts(blocks) ==
    IF blocks = <<>> THEN EmptyDict
    ELSE LET font_stats == collect_font_statistics(blocks)
         IN  [statistics     |-> font_stats,
              hierarchy      |-> determine_font_hierarchy(font_stats),
              body_font_size |-> estimate_body_font_size(font_stats)]

(***************************************************************************)
(* State.  Four programs are modelled: process_all_pdfs with the           *)
(* extract_outline call it is in (Spec), a caller of                       *)
(* StructureDetector.detect_headings and FontAnalyzer.analyze_fonts        *)
(* (SpecDetect), a caller that runs extract_outline twice on one document  *)
(* (SpecTwice), and a caller of TextAnalyzer.detect_language (SpecLang).   *)
(* Each leaves the variables of the others alone.                          *)
(***************************************************************************)
VARIABLES
    nfiles,       \* len(pdf_files)
    file,         \* index of pdf_path in pdf_files (0 before the loop)
    pc,           \* where the loop body stands
    npages,       \* len(doc)
    page_num,     \* pages extracted so far
    page_in,      \* the page handed to the last _extract_page_blocks call
    page_blocks,  \* what that call returned
    all_blocks,
    meta,         \* what doc.metadata.get("title", "") returned
    title,
    result,       \* what extract_outline returned
    outputs,      \* the output directory: file index -> JSON written
    failed,       \* the files on which an except clause has run
    lines_read    \* lines delivered by the renderer so far (bounded by MaxLines)

batch_vars == <<nfiles, file, pc, npages, page_num, page_in, page_blocks, all_blocks,
                meta, title, result, outputs, failed, lines_read>>

VARIABLES
    text_blocks,   \* the blocks detect_headings is given
    font_info,     \* the font_info dict it is given
    det_pc,        \* "build" while the caller collects blocks, then "done"
    first_page,    \* page number of the first page of the blocks
    cur_page,      \* page the caller is collecting blocks from
    run_added,     \* a run of headings has been added
    found,         \* candidates after the loop of detect_headings
    filter_trace,  \* the sorted candidates and what _filter_candidates did with each
    headings,      \* what detect_headings returned
    font_report    \* what analyze_fonts returned

detect_vars == <<text_blocks, font_info, det_pc, first_page, cur_page, run_added,
                 found, filter_trace, headings, font_report>>

VARIABLES
    pdf,      \* the document extract_outline is run on
    tw_pc,    \* "build" while the document is put together, then "run"
    runs      \* what the runs of extract_outline on it returned, in order

twice_vars == <<pdf, tw_pc, runs>>

VARIABLES
    lang_text,   \* the text detect_language is given
    lang_pc,     \* "build" while the text is put together, then "done"
    language     \* what detect_language returned

lang_vars == <<lang_text, lang_pc, language>>

vars == <<batch_vars, detect_vars, twice_vars, lang_vars>>

\* no call of detect_language is under way
LangIdle ==
    /\ lang_text = <<>>
    /\ lang_pc = "idle"
    /\ language = "en"

\* no document is being run twice
TwiceIdle ==
    /\ pdf = [opens |-> TRUE, pages |-> <<>>, meta |-> [is_none |-> FALSE, value |-> <<>>]]
    /\ tw_pc = "idle"
    /\ runs = <<>>

\* no call of detect_headings is under way
DetectIdle ==
    /\ text_blocks = <<>>
    /\ font_info = EmptyDict
    /\ det_pc = "idle"
    /\ first_page = 1
    /\ cur_page = 1
    /\ run_added = FALSE
    /\ found = <<>>
    /\ filter_trace = <<>>
    /\ headings = <<>>
    /\ font_report = EmptyDict

\* {"title": "", "outline": []}
EmptyResult == [title |-> <<>>, outline |-> <<>>]

NoPage == [lines |-> <<>>, raise_at |-> NoRaise]
NotWritten == [written |-> FALSE, content |-> EmptyResult]
Written(content) == [written |-> TRUE, content |-> content]

\* The lines this batch may still deliver.
LinesLeft == (IF nfiles <= 1 THEN MaxLines ELSE MaxBatchLines) - lines_read

\* process_all_pdfs has found nfiles files
BatchStart ==
    /\ file = 0
    /\ pc = IF nfiles = 0 THEN "done" ELSE "next_file"
    /\ npages = 0
    /\ page_num = 0
    /\ page_in = NoPage
    /\ page_blocks = <<>>
    /\ all_blocks = <<>>
    /\ meta = MetaStr(<<>>)
    /\ title = <<>>
    /\ result = EmptyResult
    /\ outputs = [f \in 1..nfiles |-> NotWritten]
    /\ failed = {}
    /\ lines_read = 0

Init ==
    /\ nfiles \in 0..NumFiles
    /\ BatchStart
    /\ DetectIdle
    /\ TwiceIdle
    /\ LangIdle

\* for pdf_path in pdf_files: (main.py line 37)
NextFile ==
    /\ pc = "next_file"
    /\ IF file < nfiles
       THEN /\ file' = file + 1
            /\ pc' = "open"
       ELSE /\ file' = file
            /\ pc' = "done"
    /\ UNCHANGED <<nfiles, npages, page_num, page_in, page_blocks, all_blocks, meta,
                   title, result, outputs, failed, lines_read>>

\* doc = fitz.open(pdf_path) succeeds (pdf_processor.py line 33)
OpenDoc ==
    /\ pc = "open"
    /\ \E n \in 0..MaxPages : npages' = n
    /\ pc' = "pages"
    /\ UNCHANGED <<nfiles, file, page_num, page_in, page_blocks, all_blocks, meta,
                   title, result, outputs, failed, lines_read>>

\* fitz.open raises: except Exception (lines 63-65) returns the empty result
OpenFails ==
    /\ pc = "open"
    /\ result' = EmptyResult
    /\ failed' = failed \cup {file}
    /\ pc' = "write"
    /\ UNCHANGED <<nfiles, file, npages, page_num, page_in, page_blocks, all_blocks,
                   meta, title, outputs, lines_read>>

\* one iteration of the page loop (lines 39-41)
ExtractPage ==
    /\ pc = "pages"
    /\ page_num < npages
    /\ \E n \in 0..LinesLeft :
         \E lines \in [1..n -> RawLineChoices] :
           \E raise_at \in {NoRaise, n} :
              /\ page_in' = [lines |-> lines, raise_at |-> raise_at]
              /\ lines_read' = lines_read + n
    /\ page_blocks' = extract_page_blocks(page_in', page_num + 1)
    /\ all_blocks' = all_blocks \o page_blocks'
    /\ page_num' = page_num + 1
    /\ UNCHANGED <<nfiles, file, pc, npages, meta, title, result, outputs, failed>>

\* title = self._extract_title(doc, all_blocks) (line 50); None.strip() raises
\* AttributeError, which except Exception turns into the empty result
ExtractTitle ==
    /\ pc = "pages"
    /\ page_num = npages
    /\ \E m \in MetaChoices :
         /\ meta' = m
         /\ IF m.is_none
            THEN /\ result' = EmptyResult
                 /\ title' = title
                 /\ failed' = failed \cup {file}
                 /\ pc' = "write"
            ELSE /\ title' = extract_title(m.value, all_blocks)
                 /\ result' = result
                 /\ failed' = failed
                 /\ pc' = "headings"
    /\ page_in' = NoPage
    /\ page_blocks' = <<>>
    /\ UNCHANGED <<nfiles, file, npages, page_num, all_blocks, outputs, lines_read>>

\* headings = self._extract_headings(all_blocks) ... return (lines 51-61)
ExtractHeadings ==
    /\ pc = "headings"
    /\ result' = [title |-> title, outline |-> extract_headings(all_blocks)]
    /\ pc' = "write"
    /\ UNCHANGED <<nfiles, file, npages, page_num, page_in, page_blocks, all_blocks,
                   meta, title, outputs, failed, lines_read>>

\* The locals of extract_outline are gone once main.py has its result.
ForgetDocument ==
    /\ npages' = 0
    /\ page_num' = 0
    /\ page_in' = NoPage
    /\ page_blocks' = <<>>
    /\ all_blocks' = <<>>
    /\ meta' = MetaStr(<<>>)
    /\ title' = <<>>
    /\ result' = EmptyResult

\* f.write with encoding='utf-8' raises UnicodeEncodeError on a surrogate
Encodable(text) == \A i \in 1..Len(text) : ~(55296 <= text[i] /\ text[i] <= 57343)
Serializable(content) ==
    /\ Encodable(content.title)
    /\ \A i \in 1..Len(content.outline) : Encodable(content.outline[i].text)

\* main.py lines 43-54: the result is written
WriteOutput ==
    /\ pc = "write"
    /\ Serializable(result)
    /\ outputs' = [outputs EXCEPT ![file] = Written(result)]
    /\ pc' = "next_file"
    /\ ForgetDocument
    /\ UNCHANGED <<nfiles, file, failed, lines_read>>

\* WriteFails with an except clause that only logs
WriteFailsSilently ==
    /\ pc = "write"
    /\ ~Serializable(result)
    /\ failed' = failed \cup {file}
    /\ pc' = "next_file"
    /\ ForgetDocument
    /\ UNCHANGED <<nfiles, file, outputs, lines_read>>

\* main.py lines 50-63: json.dump raises while it writes the result, the
\* except clause opens the file anew and writes the empty result
WriteFails ==
    /\ pc = "write"
    /\ ~Serializable(result)
    /\ outputs' = [outputs EXCEPT ![file] = Written(EmptyResult)]
    /\ failed' = failed \cup {file}
    /\ pc' = "next_file"
    /\ ForgetDocument
    /\ UNCHANGED <<nfiles, file, lines_read>>

Next ==
    \/ NextFile /\ UNCHANGED <<detect_vars, twice_vars, lang_vars>>
    \/ OpenDoc /\ UNCHANGED <<detect_vars, twice_vars, lang_vars>>
    \/ OpenFails /\ UNCHANGED <<detect_vars, twice_vars, lang_vars>>
    \/ ExtractPage /\ UNCHANGED <<detect_vars, twice_vars, lang_vars>>
    \/ ExtractTitle /\ UNCHANGED <<detect_vars, twice_vars, lang_vars>>
    \/ ExtractHeadings /\ UNCHANGED <<detect_vars, twice_vars, lang_vars>>
    \/ WriteOutput /\ UNCHANGED <<detect_vars, twice_vars, lang_vars>>
    \/ WriteFails /\ UNCHANGED <<detect_vars, twice_vars, lang_vars>>

Spec == Init /\ [][Next]_vars

(***************************************************************************)
(* A caller of StructureDetector.detect_headings and of                    *)
(* FontAnalyzer.analyze_fonts: it collects the text blocks of a document   *)
(* page by page and hands them to the one with a font_info, or to the      *)
(* other.                                                                  *)
(***************************************************************************)
DetectInit ==
    /\ nfiles = 0
    /\ BatchStart
    /\ text_blocks = <<>>
    /\ font_info \in FontInfoChoices
    /\ det_pc = "build"
    /\ first_page \in {1, 3}
    /\ cur_page = first_page
    /\ run_added = FALSE
    /\ found = <<>>
    /\ filter_trace = <<>>
    /\ headings = <<>>
    /\ font_report = EmptyDict
    /\ TwiceIdle
    /\ LangIdle

\* blocks added one by one so far
AddedBlocks == Len(text_blocks) - (IF run_added THEN RunLen ELSE 0)

\* one more block on the current page
AddBlock ==
    /\ det_pc = "build"
    /\ AddedBlocks < MaxDetectBlocks
    /\ \E t \in DetectTemplates, gap \in GapChoices :
          text_blocks' = Append(text_blocks,
                                Block(t.text, cur_page, t.spans, NextY(text_blocks, cur_page, gap)))
    /\ UNCHANGED <<font_info, det_pc, first_page, cur_page, run_added, found,
                   filter_trace, headings, font_report>>

\* a run of RunLen headings on the current page
AddRun ==
    /\ det_pc = "build"
    /\ ~run_added
    /\ text_blocks' = WithRun(text_blocks, cur_page, RunLen)
    /\ run_added' = TRUE
    /\ UNCHANGED <<font_info, det_pc, first_page, cur_page, found, filter_trace, headings,
                   font_report>>

\* the caller goes on to the next page
TurnPage ==
    /\ det_pc = "build"
    /\ cur_page < first_page + MaxDetectPages - 1
    /\ cur_page' = cur_page + 1
    /\ UNCHANGED <<text_blocks, font_info, det_pc, first_page, run_added, found,
                   filter_trace, headings, font_report>>

\* headings = detector.detect_headings(text_blocks, font_info)
DetectHeadings ==
    /\ det_pc = "build"
    /\ LET candidates == ScoredCandidates(text_blocks, font_info)
       IN  /\ found' = candidates
           /\ filter_trace' = FilterTrace(candidates)
           /\ headings' = rank_candidates(filter_candidates(candidates))
    /\ det_pc' = "done"
    /\ UNCHANGED <<text_blocks, font_info, first_page, cur_page, run_added, font_report>>

\* font_report = analyzer.analyze_fonts(text_blocks)
AnalyzeFonts ==
    /\ det_pc = "build"
    /\ font_report' = analyze_fonts(text_blocks)
    /\ det_pc' = "analyzed"
    /\ UNCHANGED <<text_blocks, font_info, first_page, cur_page, run_added, found,
                   filter_trace, headings>>

DetectNext ==
    \/ AddBlock /\ UNCHANGED <<batch_vars, twice_vars, lang_vars>>
    \/ AddRun /\ UNCHANGED <<batch_vars, twice_vars, lang_vars>>
    \/ TurnPage /\ UNCHANGED <<batch_vars, twice_vars, lang_vars>>
    \/ DetectHeadings /\ UNCHANGED <<batch_vars, twice_vars, lang_vars>>
    \/ AnalyzeFonts /\ UNCHANGED <<batch_vars, twice_vars, lang_vars>>

SpecDetect == DetectInit /\ [][DetectNext]_vars

(***************************************************************************)
(* PDFProcessor.extract_outline as a function of the document: whether     *)
(* fitz.open succeeds, its pages and its metadata title.                   *)
(***************************************************************************)
Document(opens, pages, metadata_title) ==
    [opens |-> opens, pages |-> pages, meta |-> metadata_title]

\* {"title": "", "outline": []}
EmptyOutline == [title |-> <<>>, outline |-> <<>>]

\* lines 38-41: all_blocks after the page loop
AllPageBlocks(pages) ==
    LET ext[k \in 0..Len(pages)] ==
            IF k = 0 THEN <<>> ELSE ext[k - 1] \o extract_page_blocks(pages[k], k)
    IN  ext[Len(pages)]

\* extract_outline with the processing time (the runs done before stand for
\* the clock) put into the result
extract_outline_reporting_time(document) ==
    IF ~document.opens \/ document.meta.is_none THEN EmptyOutline
    ELSE LET blocks == AllPageBlocks(document.pages)
         IN  [title   |-> extract_title(document.meta.value, blocks),
              outline |-> extract_headings(blocks),
              elapsed |-> Len(runs)]

\* PDFProcessor.extract_outline: start_time and elapsed (lines 32, 55) are
\* only printed
extract_outline(document) ==
    IF ~document.opens \/ document.meta.is_none THEN EmptyOutline
    ELSE LET blocks == AllPageBlocks(document.pages)
         IN  [title   |-> extract_title(document.meta.value, blocks),
              outline |-> extract_headings(blocks)]

(***************************************************************************)
(* A caller that runs PDFProcessor.extract_outline on a document and then  *)
(* runs it again on the same document.                                     *)
(***************************************************************************)
\* Lines of the document.
MaxTwiceLines == 3

TwiceInit ==
    /\ nfiles = 0
    /\ BatchStart
    /\ DetectIdle
    /\ LangIdle
    /\ \E opens \in BOOLEAN, m \in MetaChoices : pdf = Document(opens, <<>>, m)
    /\ tw_pc = "build"
    /\ runs = <<>>

\* the page opens with the list of items
OpensWithItems(page) == Len(page.lines) >= ItemLines /\ page.lines[1] = ItemLine(1)

\* lines, the items aside, that the pages of the document have so far
RECURSIVE LinesOf(_)
LinesOf(pages) ==
    IF pages = <<>> THEN 0
    ELSE Len(pages[1].lines) - (IF OpensWithItems(pages[1]) THEN ItemLines ELSE 0)
         + LinesOf(SubSeq(pages, 2, Len(pages)))

\* the document starts with a page that opens with the list of items
AddItemPage ==
    /\ tw_pc = "build"
    /\ pdf.pages = <<>>
    /\ \E n \in 0..MaxTwiceLines :
         \E lines \in [1..n -> RawLineChoices] :
            pdf' = [pdf EXCEPT !.pages = <<[lines |-> ItemList \o lines, raise_at |-> NoRaise]>>]
    /\ UNCHANGED <<tw_pc, runs>>

\* the document has one more page
AddPage ==
    /\ tw_pc = "build"
    /\ Len(pdf.pages) < MaxPages
    /\ \E n \in 0..(MaxTwiceLines - LinesOf(pdf.pages)) :
         \E lines \in [1..n -> RawLineChoices] :
           \E raise_at \in {NoRaise, n} :
              pdf' = [pdf EXCEPT !.pages = Append(@, [lines |-> lines, raise_at |-> raise_at])]
    /\ UNCHANGED <<tw_pc, runs>>

\* result = processor.extract_outline(pdf_path), a first and a second time
RunExtractOutline ==
    /\ tw_pc \in {"build", "run"}
    /\ Len(runs) < 2
    /\ runs' = Append(runs, extract_outline(pdf))
    /\ tw_pc' = "run"
    /\ UNCHANGED pdf

TwiceNext ==
    \/ AddPage /\ UNCHANGED <<batch_vars, detect_vars, lang_vars>>
    \/ AddItemPage /\ UNCHANGED <<batch_vars, detect_vars, lang_vars>>
    \/ RunExtractOutline /\ UNCHANGED <<batch_vars, detect_vars, lang_vars>>

SpecTwice == TwiceInit /\ [][TwiceNext]_vars

(***************************************************************************)
(* A caller of TextAnalyzer.detect_language: it puts a text together       *)
(* character by character and hands it over.                               *)
(***************************************************************************)
\* Length of the text.
MaxLangLen == 3

\* "a", "1", a space, and the first and the last character of the ranges
\* that detect_language tests, with their neighbours outside the ranges
LangChars == {97, 49, 32,
              12351, 12352, 12447, 12448, 12543, 12544,
              19967, 19968, 40959, 40960,
              44031, 44032, 55215, 55216}

LangInit ==
    /\ nfiles = 0
    /\ BatchStart
    /\ DetectIdle
    /\ TwiceIdle
    /\ lang_text = <<>>
    /\ lang_pc = "build"
    /\ language = "en"

\* the text has one more character
AppendChar ==
    /\ lang_pc = "build"
    /\ Len(lang_text) < MaxLangLen
    /\ \E c \in LangChars : lang_text' = Append(lang_text, c)
    /\ UNCHANGED <<lang_pc, language>>

\* language = analyzer.detect_language(text)
DetectLanguage ==
    /\ lang_pc = "build"
    /\ language' = detect_language(lang_text)
    /\ lang_pc' = "done"
    /\ UNCHANGED lang_text

LangNext ==
    \/ AppendChar /\ UNCHANGED <<batch_vars, detect_vars, twice_vars>>
    \/ DetectLanguage /\ UNCHANGED <<batch_vars, detect_vars, twice_vars>>

SpecLang == LangInit /\ [][LangNext]_vars

(***************************************************************************)
(* Properties of extract_outline and process_all_pdfs.                     *)
(***************************************************************************)
\* extract_outline has returned through its return statement (no except
\* clause ran) and main.py is about to write the result.
Returned == pc = "write" /\ file \notin failed

\* the lines that reach the candidate threshold, in document order
Cands == CandidatesOf(all_blocks)
\* the candidates handed to _assign_levels
UniqueSorted == StableSort(RemoveDuplicates(Cands), ScoreThenPage)

\* position in all_blocks of the line an outline entry was made from
BlockIndex(e) ==
    CHOOSE k \in 1..Len(all_blocks) :
        /\ all_blocks[k].text = e.text /\ all_blocks[k].page = e.page
        /\ \A j \in 1..(k - 1) : ~(all_blocks[j].text = e.text /\ all_blocks[j].page = e.page)

LevelNum(level) == CHOOSE i \in 1..3 : level_names[i] = level

\* C1: the outline that extract_outline returns is sorted by non-decreasing
\* page number: consecutive entries e1, e2 have e1.page <= e2.page.
C1_OutlineSortedByPage ==
    \A i \in 1..(Len(result.outline) - 1) :
        result.outline[i].page <= result.outline[i + 1].page

\* an outline over two pages that the final sort had to reorder
C1_Witness ==
    /\ Returned
    /\ Len(result.outline) >= 2
    /\ result.outline[1].page < result.outline[Len(result.outline)].page
    /\ LevelEntries(UniqueSorted) # result.outline

\* C2: two outline entries on the same page appear in the order in which
\* their lines were extracted (the order of all_blocks).
C2_SamePageDocumentOrder ==
    Returned =>
        \A i, j \in 1..Len(result.outline) :
            (i < j /\ result.outline[i].page = result.outline[j].page)
                => BlockIndex(result.outline[i]) < BlockIndex(result.outline[j])

\* C3: of two outline entries whose lines have different font sizes, the one
\* with the larger size has the level that is numerically less or equal.
C3_LevelsMonotonicInSize ==
    Returned =>
        \A i, j \in 1..Len(result.outline) :
            LET a == result.outline[i]
                b == result.outline[j]
            IN  all_blocks[BlockIndex(a)].font_size > all_blocks[BlockIndex(b)].font_size
                    => LevelNum(a.level) <= LevelNum(b.level)

\* the three levels are all in use and a fourth size group was dropped
C3_Witness ==
    /\ Returned
    /\ {result.outline[i].level : i \in 1..Len(result.outline)} = {"H1", "H2", "H3"}
    /\ Len(result.outline) < Len(UniqueSorted)

\* C4: when two or more lines that reach the threshold have the same
\* lower-cased, trimmed text, exactly one of them is in the outline, and it is
\* one with the highest score among them.
C4_HighestScoringDuplicateKept ==
    Returned =>
        \A k \in 1..Len(Cands) :
            LET key == TextInfo(Cands[k].text).key
                group == {m \in 1..Len(Cands) : TextInfo(Cands[m].text).key = key}
                among == {i \in 1..Len(result.outline) :
                             TextInfo(result.outline[i].text).key = key}
            IN  Cardinality(group) >= 2 =>
                    /\ Cardinality(among) = 1
                    /\ \A i \in among : \E m \in group :
                          /\ Cands[m].text = result.outline[i].text
                          /\ Cands[m].page = result.outline[i].page
                          /\ \A n \in group : Cands[n].score <= Cands[m].score

\* C5: every file whose loop iteration is over has its output written; the
\* output of a file on which an except clause ran is the empty result; and the
\* loop ends only after the last file.
C5_OutputAlwaysWritten ==
    /\ \A f \in 1..nfiles :
          (f < file \/ (f = file /\ pc \in {"next_file", "done"})) => outputs[f].written
    /\ \A f \in failed : outputs[f].written => outputs[f].content = EmptyResult
    /\ pc = "done" => file = nfiles

\* a batch that is over, whose first file failed and whose second file gave
\* an outline
C5_Witness ==
    /\ pc = "done"
    /\ nfiles = 2
    /\ failed = {1}
    /\ outputs[1].content = EmptyResult
    /\ outputs[2].content.outline # <<>>

\* C6 as stated: a page on which _extract_page_blocks raised contributes no
\* blocks, and the page loop goes on.
C6_RaisingPageContributesNothing ==
    page_in.raise_at # NoRaise => (page_blocks = <<>> /\ pc = "pages")

\* C6 amended: a page on which _extract_page_blocks raised contributes the
\* blocks of the lines processed before the exception (none when get_text
\* raised), all_blocks ends with them, and the page loop goes on.
C6_RaisingPageKeepsEarlierLines ==
    page_in.raise_at # NoRaise =>
        /\ page_blocks = BlocksOfLines(SubSeq(page_in.lines, 1, page_in.raise_at - 1), page_num)
        /\ Len(page_blocks) <= Len(all_blocks)
        /\ SubSeq(all_blocks, Len(all_blocks) - Len(page_blocks) + 1, Len(all_blocks)) = page_blocks
        /\ pc = "pages"
        /\ (page_num < npages => ENABLED ExtractPage)

\* a page that raised at its second line or later, after a block was
\* appended, with a page still to come
C6_Witness ==
    /\ page_in.raise_at >= 2
    /\ page_blocks # <<>>
    /\ page_num < npages

\* C7 as stated: a document without blocks gives the empty result.
C7_NoBlocksGivesEmptyResult ==
    (pc = "write" /\ all_blocks = <<>>) => result = EmptyResult

\* C7 amended: a document without blocks gives an empty outline, and as title
\* the trimmed metadata title when that has more than 3 and fewer than 150
\* characters, the empty string otherwise (also when the metadata title is
\* None).
C7_NoBlocksGivesMetadataTitle ==
    (pc = "write" /\ all_blocks = <<>>) =>
        /\ result.outline = <<>>
        /\ result.title =
              IF /\ ~meta.is_none
                 /\ Len(Strip(meta.value)) > 3
                 /\ Len(Strip(meta.value)) < 150
              THEN Strip(meta.value)
              ELSE <<>>

\* a document with pages and no blocks, returned with its metadata title
C7_Witness ==
    /\ Returned
    /\ npages > 0
    /\ all_blocks = <<>>
    /\ result.title # <<>>


\* how many distinct font sizes of the candidates are larger than the size,
\* plus one
SizeRank(candidates, size) ==
    Cardinality({v \in {candidates[k].font_size : k \in 1..Len(candidates)} : v > size}) + 1

\* the entries of the outline made from the candidate
EntriesOf(candidate) ==
    {i \in 1..Len(result.outline) :
        /\ result.outline[i].text = candidate.text
        /\ result.outline[i].page = candidate.page}

PdfBlocks == AllPageBlocks(pdf.pages)

\* how many lines of the document have the font size
LinesOfSize(v) == Cardinality({k \in 1..Len(PdfBlocks) : PdfBlocks[k].font_size = v})

TitleExtracted == runs # <<>> /\ pdf.opens /\ ~pdf.meta.is_none

\* the lines of page 1 that _extract_title may take the title from: those
\* among the first ten whose length is in [5, 200] and that match no skip
\* pattern
TitleLines(blocks) ==
    LET page1 == {k \in 1..Len(blocks) : blocks[k].page = 1}
        first10 == {k \in page1 : Cardinality({j \in page1 : j < k}) < 10}
    IN  {k \in first10 : /\ Len(blocks[k].text) >= 5
                         /\ Len(blocks[k].text) <= 200
                         /\ ~TextInfo(blocks[k].text).skip}

\* font_size x 1.3 (if bold) x 1.2 (if page 1), in 1/10000 point
TitleLineScore(block) ==
    block.font_size * (IF block.is_bold THEN 13 ELSE 10)
                    * (IF block.page = 1 THEN 12 ELSE 10) * 10

\* C15: _extract_title returns the trimmed metadata title when its length is
\* strictly between 3 and 150; otherwise the text of the line with the
\* highest score among the first 10 page-1 lines with a length in [5, 200]
\* and no skip pattern, the earliest winning on equal scores; and the empty
\* string when no line qualifies.
C15_TitleFromMetadataOrBestLine ==
    TitleExtracted =>
        LET trimmed == Strip(pdf.meta.value)
            blocks == PdfBlocks
            eligible == TitleLines(blocks)
        IN  IF Len(trimmed) > 3 /\ Len(trimmed) < 150
            THEN runs[1].title = trimmed
            ELSE IF eligible = {} THEN runs[1].title = <<>>
            ELSE \E k \in eligible :
                    /\ runs[1].title = blocks[k].text
                    /\ \A j \in eligible :
                           /\ TitleLineScore(blocks[j]) <= TitleLineScore(blocks[k])
                           /\ j < k => TitleLineScore(blocks[j]) < TitleLineScore(blocks[k])

\* the metadata title is too short, the title is the first of several lines
\* with the highest score, and page 1 has a line with a higher score after
\* its tenth line
C15_Witness ==
    /\ TitleExtracted
    /\ ~(Len(Strip(pdf.meta.value)) > 3 /\ Len(Strip(pdf.meta.value)) < 150)
    /\ LET blocks == PdfBlocks
           eligible == TitleLines(blocks)
       IN  /\ \E k, j \in eligible :
                 /\ runs[1].title = blocks[k].text
                 /\ j > k /\ TitleLineScore(blocks[j]) = TitleLineScore(blocks[k])
           /\ \E l \in 1..Len(blocks) :
                 /\ blocks[l].page = 1 /\ l > 10
                 /\ Len(blocks[l].text) >= 5 /\ ~TextInfo(blocks[l].text).skip
                 /\ \A k \in eligible : TitleLineScore(blocks[l]) > TitleLineScore(blocks[k])

(***************************************************************************)
(* Properties of StructureDetector.detect_headings.                        *)
(***************************************************************************)
\* detect_headings has returned
Detected == det_pc = "done"

\* every text of the model, trimmed and lower-cased
TrimmedLower == {<<text, Lower(Strip(text))>> : text \in DetectTexts}
\* the two texts are the same once trimmed and lower-cased
SameText(a, b) == Lookup(TrimmedLower, a.text) = Lookup(TrimmedLower, b.text)

\* the candidate, as it was before _rank_candidates, that a returned heading
\* was made from
Unboosted(h) == found[CHOOSE j \in 1..Len(found) : found[j].block_index = h.block_index]

\* _filter_candidates left the candidate out because its page was full
CapDropped(c) ==
    \E t \in 1..Len(filter_trace) :
        /\ filter_trace[t].candidate.block_index = c.block_index
        /\ filter_trace[t].verdict = "page_limit"

HeadingsOnPage(p) == {k \in 1..Len(headings) : headings[k].page = p}

\* C8: detect_headings returns at most max_headings_per_page candidates of
\* any page, and a candidate dropped because its page was full has a score
\* less than or equal to the score of every candidate kept on that page
\* (the score the kept candidate was filtered with, and so also the score it
\* is returned with).
C8_PageCapKeepsHighestScores ==
    Detected =>
        /\ \A k \in 1..Len(headings) :
               Cardinality(HeadingsOnPage(headings[k].page)) <= max_headings_per_page
        /\ \A i \in 1..Len(found), k \in 1..Len(headings) :
               (CapDropped(found[i]) /\ headings[k].page = found[i].page)
                   => /\ found[i].score <= Unboosted(headings[k]).score
                      /\ found[i].score <= headings[k].score

\* a page has filled up and a candidate of that page, with a score some kept
\* candidate of the page beats, was dropped for it
C8_Witness ==
    /\ Detected
    /\ \E i \in 1..Len(found) :
          /\ CapDropped(found[i])
          /\ Cardinality(HeadingsOnPage(found[i].page)) = max_headings_per_page
          /\ \E k \in HeadingsOnPage(found[i].page) :
                found[i].score < Unboosted(headings[k]).score

NoTwoWithSameText ==
    \A i, k \in 1..Len(headings) : SameText(headings[i], headings[k]) => i = k

C10_ReturnedScoresInUnitInterval ==
    Detected =>
        \A k \in 1..Len(headings) :
            headings[k].score >= 0 /\ headings[k].score <= ScoreOne


\* C13: a line that TextAnalyzer.is_likely_non_title classifies as non-title
\* is never among the candidates detect_headings returns.
C13_NonTitleNeverReturned ==
    Detected =>
        \A k \in 1..Len(headings) : ~is_likely_non_title(headings[k].text)

\* the candidates _filter_candidates kept, which _rank_candidates is given
KeptCandidates ==
    {filter_trace[t].candidate : t \in {u \in 1..Len(filter_trace) : filter_trace[u].verdict = "kept"}}

\* the score times 1.1 if the page is at most 3 and times 1.2 if
\* extract_numbering finds a token, in hundredths of the score unit
HundredTimesBoosted(c) ==
    c.score * (IF c.page <= 3 THEN 11 ELSE 10) * (IF has_numbering(c.text) THEN 12 ELSE 10)

\* C17: _rank_candidates returns exactly the candidates it was given, in the
\* order of (page, position), with every field but the score unchanged and
\* the score multiplied by 1.1 if page <= 3 and by 1.2 if the text has a
\* numbering token; the boosts do not change the order.
C17_RankingChangesOnlyScores ==
    Detected =>
        /\ Len(headings) = Cardinality(KeptCandidates)
        /\ \A k \in 1..Len(headings) :
               \E c \in KeptCandidates :
                   /\ headings[k] = [c EXCEPT !.score = headings[k].score]
                   /\ 100 * headings[k].score = HundredTimesBoosted(c)
        /\ \A i, k \in 1..Len(headings) :
               i < k => \/ headings[i].page < headings[k].page
                        \/ /\ headings[i].page = headings[k].page
                           /\ headings[i].position <= headings[k].position

\* a candidate with both boosts and one without any are returned, and a
\* candidate with a higher score comes after one with a lower score
C17_Witness ==
    /\ Detected
    /\ \E i, k \in 1..Len(headings) :
          /\ 100 * headings[i].score = 132 * Unboosted(headings[i]).score
          /\ headings[k].score = Unboosted(headings[k]).score
    /\ \E i, k \in 1..Len(headings) : i < k /\ headings[i].score < headings[k].score

(***************************************************************************)
(* Properties of FontAnalyzer.analyze_fonts.                               *)
(***************************************************************************)
\* analyze_fonts has returned for a non-empty list of blocks
Analyzed == det_pc = "analyzed" /\ text_blocks # <<>>

\* the spans of the document that have the size once it is rounded to 0.1
SpansOfSize(v) ==
    {<<b, k>> \in (1..Len(text_blocks)) \X (1..2) :
        k <= Len(text_blocks[b].spans) /\ RoundedSize(text_blocks[b].spans[k]) = v}

\* the sizes of the document, rounded to 0.1
DocumentSizes ==
    {RoundedSize(text_blocks[b].spans[k]) :
        <<b, k>> \in {q \in (1..Len(text_blocks)) \X (1..2) : q[2] <= Len(text_blocks[q[1]].spans)}}

\* the characters of the document in the size
RECURSIVE SumOfLengths(_)
SumOfLengths(set) ==
    IF set = {} THEN 0
    ELSE LET q == CHOOSE x \in set : TRUE
         IN  Len(text_blocks[q[1]].spans[q[2]].text) + SumOfLengths(set \ {q})
TotalChars(v) == SumOfLengths(SpansOfSize(v))

\* C11: for a non-empty list of lines the body_font_size that analyze_fonts
\* reports is one of the document's sizes (rounded to 0.1) and no other size
\* has a strictly greater total of span text lengths.
C11_BodySizeHasMostCharacters ==
    Analyzed =>
        /\ font_report.body_font_size \in DocumentSizes
        /\ \A v \in DocumentSizes : TotalChars(v) <= TotalChars(font_report.body_font_size)

\* the body size has the most characters although another size has more spans
C11_Witness ==
    /\ Analyzed
    /\ \E v \in DocumentSizes :
          /\ Cardinality(SpansOfSize(v)) > Cardinality(SpansOfSize(font_report.body_font_size))
          /\ TotalChars(v) < TotalChars(font_report.body_font_size)

\* the sizes above body size by more than the margin, largest first
SizesAbove(margin) ==
    Descending({v \in DocumentSizes : v > font_report.body_font_size + margin})

\* C12: the hierarchy consists exactly of the (up to three) largest distinct
\* sizes with size > body_size + 2.0, in descending order, the k-th entry
\* carrying suggested_level min(k, 3).
C12_HierarchyAboveThreshold ==
    Analyzed =>
        LET above == SizesAbove(font_size_threshold)
            n == IF Len(above) < 3 THEN Len(above) ELSE 3
        IN  /\ Len(font_report.hierarchy) = n
            /\ \A k \in 1..n :
                   /\ font_report.hierarchy[k].size = above[k]
                   /\ font_report.hierarchy[k].suggested_level = k


(***************************************************************************)
(* Properties of TextAnalyzer.detect_language.                             *)
(***************************************************************************)
\* the text has a character in the range
HasCharIn(first, last) ==
    \E i \in 1..Len(lang_text) : first <= lang_text[i] /\ lang_text[i] <= last

\* Hiragana or Katakana (U+3040 to U+30FF)
HasKana == HasCharIn(12352, 12543)
\* a CJK ideograph (U+4E00 to U+9FFF)
HasIdeograph == HasCharIn(19968, 40959)
\* Hangul (U+AC00 to U+D7AF)
HasHangul == HasCharIn(44032, 55215)

\* C18: detect_language returns "ja" exactly when the text has a Hiragana or
\* Katakana character, "zh" exactly when it has a CJK ideograph and no kana
\* (Hangul or not), "ko" exactly when it has a Hangul character and neither
\* kana nor an ideograph, and "en" in every other case.
C18_LanguageByScriptPrecedence ==
    lang_pc = "done" =>
        /\ language = "ja" <=> HasKana
        /\ language = "zh" <=> (HasIdeograph /\ ~HasKana)
        /\ language = "ko" <=> (HasHangul /\ ~HasKana /\ ~HasIdeograph)
        /\ language = "en" <=> (~HasKana /\ ~HasIdeograph /\ ~HasHangul)

\* a text with an ideograph and Hangul was found to be Chinese
C18_Witness ==
    /\ lang_pc = "done"
    /\ HasIdeograph /\ HasHangul
    /\ language = "zh"

=============================================================================
